---- MODULE Spec2Model ----
(***************************************************************************)
(* Model of src/main.py (Linux.Do check-in script): the cache store        *)
(* (CacheManager), the Cloudflare verifier (CloudflareHandler), and the    *)
(* session controller / engagement driver (LinuxDoBrowser).                *)
(*                                                                         *)
(* Python values are modelled as follows: a dict is a function whose       *)
(* domain is its set of keys; a list is a sequence; None is the record     *)
(* None below; time.time() and datetime.now() read the variable now        *)
(* (seconds).  A browser call that can raise is a nondeterministic choice  *)
(* between its outcomes.                                                   *)
(***************************************************************************)
EXTENDS Integers, Sequences, FiniteSets, TLC

VARIABLES
  files,          \* file name -> the file on disk (see NoFile / save_cache)
  now,            \* the wall clock, in seconds
  last_saved,     \* history variable: per file, the payload of the latest save_cache
                  \* call if it returned True, and how many such calls in a row
  USERNAME,       \* module global: TRUE iff a (non-empty) user name is configured
  PASSWORD,       \* module global: TRUE iff a (non-empty) password is configured
  BROWSE_ENABLED, \* module global
  pc,             \* where the process is
  exit_code,      \* the process's exit status once pc = "exited" (-1 before)
  session_data,   \* LinuxDoBrowser.session_data
  cache_saved,    \* LinuxDoBrowser.cache_saved
  page,           \* the primary tab: its url and whether its title is the interstitial's
  aux_pages,      \* number of auxiliary tabs open
  events,         \* history variable: the browser calls that matter, in order
  cf,             \* handle_cloudflare's locals: start_time, attempt, and how it ended
  login_ret,      \* what login() returned ("pending" before it returns)
  topics,         \* click_topic's locals: selected_topics, the loop index, the attempts
  hist            \* history variable: what the run loaded at start and did to the store

cache_vars == <<files, now, last_saved>>
run_vars == <<USERNAME, PASSWORD, BROWSE_ENABLED, pc, exit_code, session_data,
              cache_saved, page, aux_pages, events, cf, login_ret, topics, hist>>
vars == <<files, now, last_saved, USERNAME, PASSWORD, BROWSE_ENABLED, pc, exit_code,
          session_data, cache_saved, page, aux_pages, events, cf, login_ret, topics, hist>>

\* ======================== python helpers ========================

\* dict.get(k, default)
Get(d, k, default) == IF k \in DOMAIN d THEN d[k] ELSE default

\* dict.update(other)
Update(d, other) == [k \in (DOMAIN d) \cup (DOMAIN other) |->
                       IF k \in DOMAIN other THEN other[k] ELSE d[k]]

\* the empty dict {}
EmptyDict == [k \in {} |-> 0]

\* None, and a value that is not None
None == [none |-> TRUE, val |-> <<>>]
Some(v) == [none |-> FALSE, val |-> v]

\* seq[-n:]
LastN(seq, n) == IF Len(seq) <= n THEN seq ELSE SubSeq(seq, Len(seq) - n + 1, Len(seq))

\* ======================== CacheManager ========================

COOKIES_FILE == "linuxdo_cookies.json"
SESSION_FILE == "linuxdo_session.json"
CacheFiles == {COOKIES_FILE, SESSION_FILE}

\* A path that does not exist (os.path.exists is False).  Of a file that
\* exists: json says whether its text is valid JSON, dict whether the JSON
\* document is an object, doc the object, mtime the modification time.
NoFile == [exists |-> FALSE, json |-> FALSE, dict |-> FALSE, doc |-> EmptyDict, mtime |-> 0]

\* What the disk can do to one save_cache call: every step works ("ok"), open()
\* raises (the file is left as it was), json.dump raises after open() truncated
\* the file, or os.utime raises after the document was written.
SaveOutcomes == {"ok", "open_fails", "dump_fails", "utime_fails"}

\* data_to_save of save_cache at clock t
data_to_save(data, t) ==
  [data |-> data, cache_timestamp |-> t, cache_version |-> "1.0", file_created |-> t]

\* (mutant of save_cache_file: an existing document is not overwritten)
save_cache_file_keep(old, data, t, outcome) ==
  CASE outcome = "open_fails"  -> old
    [] outcome = "dump_fails"  -> [exists |-> TRUE, json |-> FALSE, dict |-> FALSE, doc |-> EmptyDict, mtime |-> t]
    [] OTHER                   -> IF old.exists /\ old.json
                                    THEN [old EXCEPT !.mtime = t]
                                    ELSE [exists |-> TRUE, json |-> TRUE, dict |-> TRUE,
                                          doc |-> data_to_save(data, t), mtime |-> t]

\* (mutant of save_cache_file: the modification time of an existing file is kept)
save_cache_file_mtime(old, data, t, outcome) ==
  LET mt == IF old.exists THEN old.mtime ELSE t
  IN  CASE outcome = "open_fails"  -> old
        [] outcome = "dump_fails"  -> [exists |-> TRUE, json |-> FALSE, dict |-> FALSE,
                                       doc |-> EmptyDict, mtime |-> mt]
        [] OTHER                   -> [exists |-> TRUE, json |-> TRUE, dict |-> TRUE,
                                       doc |-> data_to_save(data, t), mtime |-> mt]

\* The file save_cache leaves behind.
save_cache_file(old, data, t, outcome) ==
  CASE outcome = "open_fails"  -> old
    [] outcome = "dump_fails"  -> [exists |-> TRUE, json |-> FALSE, dict |-> FALSE, doc |-> EmptyDict, mtime |-> t]
    [] OTHER                   -> [exists |-> TRUE, json |-> TRUE, dict |-> TRUE,
                                   doc |-> data_to_save(data, t), mtime |-> t]

\* the try block of save_cache (lines 97-113): the exception raised in it, or "none"
save_cache_try(outcome) ==
  CASE outcome = "open_fails"  -> "OSError"
    [] outcome = "dump_fails"  -> "TypeError"
    [] outcome = "utime_fails" -> "OSError"
    [] OTHER                   -> "none"

\* what `except Exception` (lines 87, 114, 486 and 542) catches
Exceptions ==
  {"OSError", "TypeError", "JSONDecodeError", "AttributeError", "PageDisconnectedError",
   "ElementNotFoundError"}

\* does save_cache raise to its caller
save_cache_raises(outcome) ==
  save_cache_try(outcome) # "none" /\ save_cache_try(outcome) \notin Exceptions

\* save_cache's return value
save_cache_result(outcome) == save_cache_try(outcome) = "none"

\* CacheManager.save_cache(data, file_name): the disk after the call
save_cache(fs, data, file_name, t, outcome) ==
  [fs EXCEPT ![file_name] = save_cache_file(fs[file_name], data, t, outcome)]

\* the try block of load_cache (lines 78-86) on a file that exists: the
\* exception raised in it (by json.load, or by data.get on a document that is
\* not an object), or "none"
load_cache_try(file) ==
  IF ~file.json THEN "JSONDecodeError"
  ELSE IF ~file.dict THEN "AttributeError"
  ELSE "none"

\* (mutant of load_cache_raises: data.get is called after the try block)
load_cache_raises_shape(fs, file_name) ==
  fs[file_name].exists /\ load_cache_try(fs[file_name]) = "AttributeError"

\* does load_cache raise to its caller
load_cache_raises(fs, file_name) ==
  /\ fs[file_name].exists
  /\ load_cache_try(fs[file_name]) # "none"
  /\ load_cache_try(fs[file_name]) \notin Exceptions

\* CacheManager.load_cache(file_name): data.get('data', data), or None
load_cache(fs, file_name) ==
  IF fs[file_name].exists /\ load_cache_try(fs[file_name]) = "none"
    THEN Some(Get(fs[file_name].doc, "data", fs[file_name].doc))
    ELSE None

\* CacheManager.get_file_age_hours(file_path): the age in seconds (the code
\* divides it by 3600), or None
get_file_age(fs, file_path, t) ==
  IF ~fs[file_path].exists THEN None ELSE Some(t - fs[file_path].mtime)

\* CacheManager.load_cookies()
load_cookies(fs) == load_cache(fs, COOKIES_FILE)

\* CacheManager.load_session():  load_cache(...) or {}
load_session(fs) ==
  LET r == load_cache(fs, SESSION_FILE)
  IN  IF r.none \/ DOMAIN r.val = {} THEN EmptyDict ELSE r.val

\* CacheManager.save_cookies(cookies)
save_cookies(fs, cookies, t, outcome) == save_cache(fs, cookies, COOKIES_FILE, t, outcome)

\* CacheManager.save_session(session_data)
save_session(fs, session, t, outcome) == save_cache(fs, session, SESSION_FILE, t, outcome)

\* history variable kept beside save_cache: the payload of the latest call on
\* the file if it returned True, and whether it overwrote an earlier successful
\* save (n = 2); forgotten when a later call on the file fails or removes it.
NoSave == [none |-> TRUE, val |-> <<>>, n |-> 0]
NoteSave(ls, data, file_name, outcome) ==
  [ls EXCEPT ![file_name] =
     IF save_cache_result(outcome)
       THEN [none |-> FALSE, val |-> data, n |-> IF @.none THEN 1 ELSE 2]
       ELSE NoSave]
NoteClear(ls, before, after) ==
  [f \in CacheFiles |-> IF before[f].exists /\ ~after[f].exists THEN NoSave ELSE ls[f]]

\* ======================== clear_caches (storage part) ========================

\* What the disk can do to clear_caches: both os.remove calls work, or the one
\* on the named file raises (it can only raise on a file that exists).
ClearOutcomes == {"ok", "remove_cookies_fails", "remove_session_fails"}

\* clear_caches: does an os.remove raise (the except of line 400 is taken)?
clear_caches_raises(fs, outcome) ==
  \/ outcome = "remove_cookies_fails" /\ fs[COOKIES_FILE].exists
  \/ outcome = "remove_session_fails" /\ fs[SESSION_FILE].exists

\* (mutant of clear_caches_files: the loop stops after the first file)
clear_caches_files_first(fs, outcome) ==
  IF outcome = "remove_cookies_fails" /\ fs[COOKIES_FILE].exists
    THEN fs
    ELSE [fs EXCEPT ![COOKIES_FILE] = NoFile]

\* clear_caches: the disk after the loop of lines 392-395
clear_caches_files(fs, outcome) ==
  IF outcome = "remove_cookies_fails" /\ fs[COOKIES_FILE].exists
    THEN fs
    ELSE LET fs1 == [fs EXCEPT ![COOKIES_FILE] = NoFile]
         IN  IF outcome = "remove_session_fails" /\ fs[SESSION_FILE].exists
               THEN fs1
               ELSE [fs1 EXCEPT ![SESSION_FILE] = NoFile]

\* clear_caches: self.session_data after the call (line 397 is skipped when a
\* removal raised)
clear_caches_session(sd, fs, outcome) ==
  IF clear_caches_raises(fs, outcome) THEN sd ELSE EmptyDict

\* ======================== CloudflareHandler.is_cf_cookie_valid ========================

\* (mutant of is_cf_cookie_valid: expires >= time.time())
RECURSIVE cf_loop_ge(_, _, _)
cf_loop_ge(cookies, i, t) ==
  IF i > Len(cookies) THEN FALSE
  ELSE IF /\ Get(cookies[i], "name", "") = "cf_clearance"
          /\ LET expires == Get(cookies[i], "expires", 0)
             IN  expires = -1 \/ expires >= t
         THEN TRUE
         ELSE cf_loop_ge(cookies, i + 1, t)
is_cf_cookie_valid_ge(cookies, t) == cf_loop_ge(cookies, 1, t)

\* the for loop of lines 147-152, from the i-th cookie on
RECURSIVE cf_loop(_, _, _)
cf_loop(cookies, i, t) ==
  IF i > Len(cookies) THEN FALSE
  ELSE IF /\ Get(cookies[i], "name", "") = "cf_clearance"
          /\ LET expires == Get(cookies[i], "expires", 0)
             IN  expires = -1 \/ expires > t
         THEN TRUE
         ELSE cf_loop(cookies, i + 1, t)

\* CloudflareHandler.is_cf_cookie_valid(cookies) at clock t
is_cf_cookie_valid(cookies, t) == cf_loop(cookies, 1, t)

\* `cached_cookies or []`
OrEmptyList(r) == IF r.none THEN <<>> ELSE r.val

\* an entry of events: the browser call, the function that made it, the clock
Ev(call, by, t) == [call |-> call, by |-> by, t |-> t]

\* the positions in events of the calls of the given names
Called(names) == { i \in 1..Len(events) : events[i].call \in names }

\* ======================== CloudflareHandler.handle_cloudflare ========================

HOME_URL == "https://linux.do/"
LOGIN_URL == "https://linux.do/login"

\* handle_cloudflare's defaults
max_attempts == 8
timeout == 180

\* What one look at the page gives: its title is the interstitial's ("请稍候…" or
\* one with "Checking"), is another one, or the browser call raises; lat is how
\* long the browser took to answer and wait is what random.uniform(8, 15) drew
\* for the sleep after it.
Titles == {"interstitial", "normal", "raises"}
Look(title, lat, wait) == [title |-> title, lat |-> lat, wait |-> wait]

\* handle_cloudflare's locals when it is entered at clock t0: t is the clock,
\* attempt counts the iterations of the for loop made so far, at is where the
\* function is, state names the verifier's state, and late records whether an
\* iteration was started although time.time() - start_time > timeout held.
cf_start(t0) ==
  [start_time |-> t0, t |-> t0, attempt |-> 0, at |-> "entry", state |-> "UNKNOWN",
   result |-> FALSE, late |-> FALSE]

\* (mutant of cf_entry: the cached cookies are used whether valid or not)
cf_entry_any(c, cached, look) ==
  IF OrEmptyList(cached) # <<>>
    THEN CASE look.title = "raises" ->
                [c EXCEPT !.t = @ + look.lat, !.at = "poll", !.state = "POLLING"]
           [] look.title = "normal" ->
                [c EXCEPT !.t = @ + look.lat + 5, !.at = "returned",
                          !.state = "BYPASSED", !.result = TRUE]
           [] OTHER ->
                [c EXCEPT !.t = @ + look.lat + 5, !.at = "poll", !.state = "POLLING"]
    ELSE [c EXCEPT !.at = "poll", !.state = "POLLING"]

\* (mutant of cf_entry: the loop is entered even after a cached access that
\* found the page through)
cf_entry_polls(c, cached, look) ==
  LET cached_cookies == OrEmptyList(cached)
      cached_cf_valid == is_cf_cookie_valid(cached_cookies, c.t)
  IN  IF cached_cf_valid /\ cached_cookies # <<>>
        THEN CASE look.title = "raises" ->
                    [c EXCEPT !.t = @ + look.lat, !.at = "poll", !.state = "POLLING"]
               [] OTHER ->
                    [c EXCEPT !.t = @ + look.lat + 5, !.at = "poll", !.state = "POLLING"]
        ELSE [c EXCEPT !.at = "poll", !.state = "POLLING"]

\* lines 172-190: the cached short-circuit; look is what page.get(HOME_URL) and
\* page.title give
cf_entry(c, cached, look) ==
  LET cached_cookies == OrEmptyList(cached)
      cached_cf_valid == is_cf_cookie_valid(cached_cookies, c.t)
  IN  IF cached_cf_valid /\ cached_cookies # <<>>
        THEN CASE look.title = "raises" ->
                    [c EXCEPT !.t = @ + look.lat, !.at = "poll", !.state = "POLLING"]
               [] look.title = "normal" ->
                    [c EXCEPT !.t = @ + look.lat + 5, !.at = "returned",
                              !.state = "BYPASSED", !.result = TRUE]
               [] OTHER ->
                    [c EXCEPT !.t = @ + look.lat + 5, !.at = "poll", !.state = "POLLING"]
        ELSE [c EXCEPT !.at = "poll", !.state = "POLLING"]

\* lines 181-182: the browser calls the cached short-circuit issues
cf_entry_calls(c, cached) ==
  LET cached_cookies == OrEmptyList(cached)
  IN  IF is_cf_cookie_valid(cached_cookies, c.t) /\ cached_cookies # <<>>
        THEN <<Ev("set_cookies", "verifier", c.t), Ev("get_home", "verifier", c.t)>>
        ELSE <<>>

\* lines 194-216: one pass of `for attempt in range(max_attempts)`
cf_poll(c, look) ==
  IF c.attempt >= max_attempts
    THEN [c EXCEPT !.at = "final"]
    ELSE LET started == [c EXCEPT !.attempt = @ + 1,
                                  !.late = @ \/ (c.t - c.start_time > timeout)]
         IN  CASE look.title = "raises" ->
                    \* except: time.sleep(10), and the next iteration
                    [started EXCEPT !.t = @ + look.lat + 10]
               [] look.title = "normal" ->
                    [started EXCEPT !.t = @ + look.lat, !.at = "returned",
                                    !.state = "PASSED", !.result = TRUE]
               [] OTHER ->
                    LET t1 == c.t + look.lat + look.wait
                    IN  IF t1 - c.start_time > timeout
                          THEN [started EXCEPT !.t = t1, !.at = "final"]
                          ELSE [started EXCEPT !.t = t1]

\* (mutant of cf_final: an interstitial title at the final check is an error)
cf_final_strict(c, look) ==
  CASE look.title = "normal" ->
         [c EXCEPT !.t = @ + look.lat, !.at = "returned", !.state = "PASSED", !.result = TRUE]
    [] look.title = "raises" -> [c EXCEPT !.t = @ + look.lat, !.at = "raised"]
    [] OTHER ->
         [c EXCEPT !.t = @ + look.lat, !.at = "raised", !.state = "UNRESOLVED"]

\* lines 218-225: the final check
cf_final(c, look) ==
  CASE look.title = "raises" -> [c EXCEPT !.t = @ + look.lat, !.at = "raised"]
    [] look.title = "normal" ->
         [c EXCEPT !.t = @ + look.lat, !.at = "returned", !.state = "PASSED", !.result = TRUE]
    [] OTHER ->
         [c EXCEPT !.t = @ + look.lat, !.at = "returned", !.state = "UNRESOLVED",
                   !.result = TRUE]

\* the for loop, run to its end on the looks polls[1], polls[2], ...
RECURSIVE cf_loop_run(_, _)
cf_loop_run(c, polls) ==
  IF c.at # "poll" THEN c
  ELSE IF c.attempt >= max_attempts THEN cf_poll(c, polls[max_attempts])
  ELSE cf_loop_run(cf_poll(c, polls[c.attempt + 1]), polls)

\* handle_cloudflare(page) entered at clock t0, against a page that answers
\* script.entry to the cached access, script.polls[i] to the i-th iteration and
\* script.final to the final check: the locals when it returns or raises
handle_cloudflare(cached, t0, script) ==
  LET c1 == cf_entry(cf_start(t0), cached, script.entry)
      c2 == cf_loop_run(c1, script.polls)
  IN  IF c2.at = "final" THEN cf_final(c2, script.final) ELSE c2

\* the title the primary tab shows after a look at it
PageAfter(p, url, look) ==
  IF look.title = "raises" THEN p
  ELSE [url |-> url, interstitial |-> look.title = "interstitial"]

\* ======================== retry_decorator ========================

\* retry_decorator's default
retries == 3

\* (mutant of retry_step: the loop goes on after an attempt that returned)
retry_step_on(attempt, raised) ==
  IF attempt = retries - 1 THEN (IF raised THEN "failed" ELSE "returned") ELSE "retry"

\* (mutant of retry_step: the loop gives up one attempt early)
retry_step_early(attempt, raised) ==
  IF ~raised THEN "returned"
  ELSE IF attempt >= retries - 2 THEN "failed" ELSE "retry"

\* wrapper, after attempt number `attempt` (from 0) of func: it returns func's
\* value, goes round the loop again, or has logged the final failure and falls
\* out of the loop
retry_step(attempt, raised) ==
  IF ~raised THEN "returned"
  ELSE IF attempt = retries - 1 THEN "failed" ELSE "retry"

\* ======================== LinuxDoBrowser ========================

\* What check_login_status finds on the page: a user element, the user name in
\* the page html (absent, in the case of USERNAME, or in another case), an
\* element to open the user menu and the user name in the html once it is
\* open, a login button, the interstitial's title, the length of the html;
\* whether reading page.html or page.title raises, whether the element
\* lookups raise, and whether clicking an element raises.
Probe(user, name, menu, name_menu, btn, inter, len, raises, ele_r, click_r) ==
  [user_elem |-> user, name_in_html |-> name, menu_elem |-> menu,
   name_in_menu |-> name_menu, login_btn |-> btn, interstitial |-> inter,
   html_len |-> len, html_raises |-> raises, ele_raises |-> ele_r,
   click_raises |-> click_r]

\* no page has been probed yet
NoProbe == Probe(FALSE, "absent", FALSE, FALSE, FALSE, FALSE, 0, FALSE, FALSE, FALSE)

\* len(page_content) > 1000  (line 479)
long_page(p) == p.html_len > 1000

\* (mutant of lower_in: the match is case-sensitive)
lower_in_exact(form) == form = "same_case"

\* USERNAME.lower() in page_content.lower()  (lines 475 and 494)
lower_in(form) == form \in {"same_case", "other_case"}

\* the body of verify_username(): "True", "False", or the exception that
\* leaves it (page.html at line 493 is outside its try block)
verify_username_try(p) ==
  IF p.html_raises THEN "PageDisconnectedError"
  ELSE IF lower_in(p.name_in_html) THEN "True"
  ELSE IF p.ele_raises \/ ~p.menu_elem \/ p.click_raises THEN "False"
  ELSE IF p.name_in_menu THEN "True" ELSE "False"

\* verify_username()
verify_username(p) == verify_username_try(p) = "True"

\* lines 472-484: the decision when no element settled it
heuristic(p) ==
  IF ~p.interstitial /\ (lower_in(p.name_in_html) \/ long_page(p)) THEN "True" ELSE "False"

\* a user element was found (a lookup that raises is skipped, lines 454-455)
user_found(p) == p.user_elem /\ ~p.ele_raises

\* the body of the try block of check_login_status (lines 442-484): "True",
\* "False", or the exception that leaves it.  An exception of verify_username
\* is caught by the handler of the selector loop, which goes on.
check_login_status_try(p) ==
  IF user_found(p) /\ verify_username_try(p) \in {"True", "False"}
    THEN verify_username_try(p)
  ELSE IF p.login_btn /\ ~p.ele_raises THEN "False"
  ELSE IF p.html_raises THEN "PageDisconnectedError"
  ELSE heuristic(p)

\* (mutant of check_login_status_raises: no handler at line 486)
check_login_status_uncaught(p) == check_login_status_try(p) \notin {"True", "False"}

\* does check_login_status raise to its caller (handler at line 486)
check_login_status_raises(p) ==
  /\ check_login_status_try(p) \notin {"True", "False"}
  /\ check_login_status_try(p) \notin Exceptions

\* check_login_status()
check_login_status(p) == check_login_status_try(p) = "True"

\* how a call of check_login_status ends for its caller
check_outcome(p) ==
  IF check_login_status_raises(p) THEN "raised"
  ELSE IF check_login_status(p) THEN "True" ELSE "False"

\* the seconds check_login_status sleeps (lines 505 and 515)
check_login_sleep(p) ==
  IF /\ user_found(p) /\ ~p.html_raises /\ ~lower_in(p.name_in_html)
     /\ p.menu_elem /\ ~p.click_raises
    THEN (IF p.name_in_menu THEN 2 ELSE 3)
    ELSE 0

\* What save_all_caches meets: browser.cookies() raises, or returns cookies, and
\* then the outcomes of the two save_cache calls.
SaveEnv(raises, cookies, c_out, s_out) ==
  [raises |-> raises, cookies |-> cookies, c_out |-> c_out, s_out |-> s_out]
CookiesRaise == SaveEnv(TRUE, <<>>, "ok", "ok")

\* lines 376-380
login_keys(t) == [last_success |-> t, login_status |-> "success", last_updated |-> t]

\* (mutant of save_all_caches: the session dict is saved before it is updated)
save_all_caches_stale(fs, sd, saved, ls, t, env) ==
  IF env.raises
    THEN [files |-> fs, session_data |-> sd, cache_saved |-> saved, last_saved |-> ls]
    ELSE LET some == env.cookies # <<>>
             fs1 == IF some THEN save_cookies(fs, env.cookies, t, env.c_out) ELSE fs
             ls1 == IF some THEN NoteSave(ls, env.cookies, COOKIES_FILE, env.c_out) ELSE ls
         IN  [files |-> save_session(fs1, sd, t, env.s_out),
              session_data |-> Update(sd, login_keys(t)),
              cache_saved |-> TRUE,
              last_saved |-> NoteSave(ls1, sd, SESSION_FILE, env.s_out)]

\* save_all_caches() at clock t: the disk, self.session_data, self.cache_saved
\* (and the history variable last_saved) after it
save_all_caches(fs, sd, saved, ls, t, env) ==
  IF env.raises
    THEN [files |-> fs, session_data |-> sd, cache_saved |-> saved, last_saved |-> ls]
    ELSE LET some == env.cookies # <<>>
             fs1 == IF some THEN save_cookies(fs, env.cookies, t, env.c_out) ELSE fs
             ls1 == IF some THEN NoteSave(ls, env.cookies, COOKIES_FILE, env.c_out) ELSE ls
             sd1 == Update(sd, login_keys(t))
         IN  [files |-> save_session(fs1, sd1, t, env.s_out),
              session_data |-> sd1,
              cache_saved |-> TRUE,
              last_saved |-> NoteSave(ls1, sd1, SESSION_FILE, env.s_out)]

\* `if not self.cache_saved: self.save_all_caches()`
save_if_unsaved(fs, sd, saved, ls, t, env) ==
  IF saved
    THEN [files |-> fs, session_data |-> sd, cache_saved |-> saved, last_saved |-> ls]
    ELSE save_all_caches(fs, sd, saved, ls, t, env)

\* What getTurnstileToken meets: whether the turnstile.reset() call of line
\* 524 raises, the number of the first turnstile.getResponse() query that
\* gives a token (above polls: none does), and whether looking up or clicking
\* the widget raises.
TokenEnv(reset_r, first, trigger_r) ==
  [reset_raises |-> reset_r, first |-> first, trigger_raises |-> trigger_r]

\* range(0, 5) at line 528
polls == 5

\* lines 530-541, the body of the try block in iteration i (0-based): the
\* token is returned, or the widget is triggered, or an exception leaves it
turnstile_try(i, env) ==
  IF env.first = i + 1 THEN "token"
  ELSE IF env.trigger_raises THEN "ElementNotFoundError"
  ELSE "clicked"

\* (mutant of turnstile_caught: no handler at line 542)
turnstile_uncaught(outcome) == FALSE

\* is the exception caught by the handler of line 542
turnstile_caught(outcome) == outcome \in Exceptions

\* the for loop of lines 528-544 from iteration i on: whether it raises,
\* whether a token is returned, the queries made and the seconds slept
RECURSIVE turnstile_loop(_, _)
turnstile_loop(i, env) ==
  IF i >= polls
    THEN [raises |-> FALSE, token |-> FALSE, queries |-> i, slept |-> i]
  ELSE LET outcome == turnstile_try(i, env)
       IN  IF outcome = "token"
             THEN [raises |-> FALSE, token |-> TRUE, queries |-> i + 1, slept |-> i]
           ELSE IF outcome = "clicked" \/ turnstile_caught(outcome)
             THEN turnstile_loop(i + 1, env)
           ELSE [raises |-> TRUE, token |-> FALSE, queries |-> i + 1, slept |-> i]

\* getTurnstileToken()
getTurnstileToken(env) ==
  IF env.reset_raises
    THEN [raises |-> TRUE, token |-> FALSE, queries |-> 0, slept |-> 0]
    ELSE turnstile_loop(0, env)

\* getTurnstileToken has not been called
NoTokenCall ==
  [called |-> FALSE, env |-> TokenEnv(FALSE, 1, FALSE),
   ret |-> [raises |-> FALSE, token |-> FALSE, queries |-> 0, slept |-> 0]]

\* line 603's cap
HistoryCap == 50

\* (mutant of update_history: the first 50 entries are kept)
update_history_head(sd, href) ==
  LET browse_history == Append(Get(sd, "browse_history", <<>>), href)
  IN  Update(sd, [browse_history |->
        IF Len(browse_history) <= HistoryCap THEN browse_history
        ELSE SubSeq(browse_history, 1, HistoryCap)])

\* lines 601-603: self.session_data after the history update for href
update_history(sd, href) ==
  LET browse_history == Append(Get(sd, "browse_history", <<>>), href)
  IN  Update(sd, [browse_history |-> LastN(browse_history, HistoryCap)])

\* lines 804-805 at clock t
count_browse(sd, t) ==
  Update(sd, [last_browse |-> t, total_browsed |-> Get(sd, "total_browsed", 0) + 1])

\* random.sample(topic_list, k): the k-long sequences of entries at distinct positions
Samples(topic_list, k) ==
  { [i \in 1..k |-> topic_list[pos[i]]] :
      pos \in { q \in [1..k -> 1..Len(topic_list)] :
                  \A a, b \in 1..k : a # b => q[a] # q[b] } }

\* min(a, b)
Min(a, b) == IF a <= b THEN a ELSE b

\* ======================== the values the model draws from ========================

\* The clock when the model starts.
InitClock == 1000
\* How many seconds the clock may advance between cache store calls.
MaxTicks == 1

\* a cookie with an expiry, and one without (a session cookie)
Cookie(name, expires) == [name |-> name, expires |-> expires]
SessionCookie(name) == [name |-> name]

\* Cookie entries around the clock t: never expiring, expired 10 s ago, expiring
\* at t + 1, without expires, and one that is not the clearance cookie.
CookieEntries(t) ==
  { Cookie("cf_clearance", -1), Cookie("cf_clearance", t - 10),
    Cookie("cf_clearance", t + 1), SessionCookie("cf_clearance"), Cookie("_t", t + 1) }

\* The cookie lists (of at most 2 entries) the cache store is called with.
CookiePayloads ==
  {<<>>} \cup { <<a>> : a \in CookieEntries(InitClock) }
         \cup { <<a, b>> : a \in CookieEntries(InitClock), b \in CookieEntries(InitClock) }

\* The session dicts the cache store is called with.
SessionPayloads ==
  { EmptyDict,
    [login_status |-> "success", last_success |-> InitClock],
    [login_status |-> "success", last_success |-> InitClock, total_browsed |-> 1,
     browse_history |-> <<1>>] }

CachePayloads(file_name) ==
  IF file_name = COOKIES_FILE THEN CookiePayloads ELSE SessionPayloads

\* ======================== the cache store on its own ========================

\* click_topic's locals before it runs
NoTopics == [selected |-> <<>>, i |-> 0, tries |-> <<>>, done |-> <<>>]
\* the history variable at process start
NoHist == [session0 |-> EmptyDict, cookies0 |-> <<>>, saves |-> <<>>, visited |-> <<>>,
           clear |-> "none", queries |-> 0, loaded |-> "none", probe |-> NoProbe,
           check |-> "none", token |-> NoTokenCall]

\* No process is running: its variables hold their idle values.
RunIdle ==
  /\ USERNAME = TRUE /\ PASSWORD = TRUE /\ BROWSE_ENABLED = TRUE
  /\ pc = "api" /\ exit_code = -1
  /\ session_data = EmptyDict /\ cache_saved = FALSE
  /\ page = [url |-> "about:blank", interstitial |-> FALSE]
  /\ aux_pages = 0 /\ events = <<>>
  /\ cf = cf_start(0)
  /\ login_ret = "pending"
  /\ topics = NoTopics
  /\ hist = NoHist

\* Files the program did not write: text that is not JSON, a JSON list, and a
\* JSON object without the 'data' key.
Garbage == [exists |-> TRUE, json |-> FALSE, dict |-> FALSE, doc |-> EmptyDict,
            mtime |-> InitClock - 100]
JsonList == [exists |-> TRUE, json |-> TRUE, dict |-> FALSE, doc |-> EmptyDict,
             mtime |-> InitClock - 100]
BareObject == [exists |-> TRUE, json |-> TRUE, dict |-> TRUE,
               doc |-> [login_status |-> "success"], mtime |-> InitClock - 100]

InitCache ==
  /\ files \in { [f \in CacheFiles |-> IF f = COOKIES_FILE THEN c ELSE s0] :
                  c \in {NoFile, Garbage}, s0 \in {NoFile, JsonList, BareObject} }
  /\ now = InitClock
  /\ last_saved = [f \in CacheFiles |-> NoSave]
  /\ RunIdle

\* a call of CacheManager.save_cache
CacheSave ==
  \E f \in CacheFiles : \E data \in CachePayloads(f) : \E outcome \in SaveOutcomes :
    /\ files' = save_cache(files, data, f, now, outcome)
    /\ last_saved' = NoteSave(last_saved, data, f, outcome)
    /\ pc' = IF save_cache_raises(outcome) THEN "raised" ELSE pc
    /\ UNCHANGED <<now, USERNAME, PASSWORD, BROWSE_ENABLED, exit_code, session_data,
                   cache_saved, page, aux_pages, events, cf, login_ret, topics, hist>>

\* a call of CacheManager.load_session, as LinuxDoBrowser.__init__ makes it
CacheLoadSession ==
  /\ IF load_cache_raises(files, SESSION_FILE)
       THEN pc' = "raised" /\ UNCHANGED <<session_data, hist>>
       ELSE /\ session_data' = load_session(files)
            /\ hist' = [hist EXCEPT !.loaded =
                          IF load_cache(files, SESSION_FILE).none THEN "absent" ELSE "value"]
            /\ UNCHANGED pc
  /\ UNCHANGED <<cache_vars, USERNAME, PASSWORD, BROWSE_ENABLED, exit_code,
                 cache_saved, page, aux_pages, events, cf, login_ret, topics>>

\* a call of LinuxDoBrowser.clear_caches
CacheClear ==
  \E outcome \in ClearOutcomes :
    /\ files' = clear_caches_files(files, outcome)
    /\ last_saved' = NoteClear(last_saved, files, files')
    /\ session_data' = clear_caches_session(session_data, files, outcome)
    /\ UNCHANGED <<now, USERNAME, PASSWORD, BROWSE_ENABLED, pc, exit_code,
                   cache_saved, page, aux_pages, events, cf, login_ret, topics, hist>>

\* time passes
CacheTick ==
  /\ now < InitClock + MaxTicks
  /\ now' = now + 1
  /\ UNCHANGED <<files, last_saved, run_vars>>

NextCache == CacheSave \/ CacheLoadSession \/ CacheClear \/ CacheTick

SpecCache == InitCache /\ [][NextCache]_vars

\* ======================== the verifier on its own ========================

\* How long a browser call that does not answer at once takes, in seconds.
SlowCall == 60
Latencies == {0, SlowCall}
\* The values random.uniform(8, 15) is drawn from.
WaitChoices == {8, 15}
\* Every look at the page.
Looks == { Look(title, lat, wait) : title \in Titles, lat \in Latencies, wait \in WaitChoices }

\* a cache file as a successful save_cache at clock t leaves it
SavedFile(data, t) == save_cache_file(NoFile, data, t, "ok")

\* The cookie files a verifier call can find: none, one whose clearance cookie
\* never expires, expired 10 s ago, or expires in 3 s, and one without it.
CookieFiles ==
  { NoFile,
    SavedFile(<<Cookie("cf_clearance", -1)>>, InitClock - 100),
    SavedFile(<<Cookie("cf_clearance", InitClock - 10)>>, InitClock - 100),
    SavedFile(<<Cookie("_t", -1), Cookie("cf_clearance", InitClock + 3)>>, InitClock - 100),
    SavedFile(<<Cookie("_t", -1)>>, InitClock - 100) }

InitCF ==
  /\ files \in { [f \in CacheFiles |-> IF f = COOKIES_FILE THEN cfile ELSE NoFile] :
                 cfile \in CookieFiles }
  /\ now = InitClock
  /\ last_saved = [f \in CacheFiles |-> NoSave]
  /\ USERNAME = TRUE /\ PASSWORD = TRUE /\ BROWSE_ENABLED = TRUE
  /\ pc = "cf_entry" /\ exit_code = -1
  /\ session_data = EmptyDict /\ cache_saved = FALSE
  /\ page = [url |-> LOGIN_URL, interstitial |-> TRUE]
  /\ aux_pages = 0 /\ events = <<Ev("get_login", "login", InitClock)>>
  /\ cf = cf_start(InitClock)
  /\ login_ret = "pending"
  /\ topics = NoTopics
  /\ hist = NoHist

\* where the process is, from where the verifier is
CfPc(c) == CASE c.at = "poll" -> "cf_poll"
             [] c.at = "final" -> "cf_final"
             [] c.at = "returned" -> "cf_returned"
             [] OTHER -> "cf_raised"

\* lines 169-190, as one step
CFEntry ==
  /\ pc = "cf_entry"
  /\ \E look \in Looks :
       LET cached == load_cookies(files)
           c0 == cf_start(now)
           c1 == cf_entry(c0, cached, look)
           calls == cf_entry_calls(c0, cached)
       IN  /\ cf' = c1
           /\ now' = c1.t
           /\ events' = events \o calls
           /\ page' = IF calls = <<>> THEN page ELSE PageAfter(page, HOME_URL, look)
           /\ pc' = CfPc(c1)
  /\ UNCHANGED <<files, last_saved, USERNAME, PASSWORD, BROWSE_ENABLED, exit_code,
                 session_data, cache_saved, aux_pages, login_ret, topics, hist>>

\* lines 194-216, one iteration as one step
CFPoll ==
  /\ pc = "cf_poll"
  /\ \E look \in Looks :
       LET c1 == cf_poll(cf, look)
       IN  /\ cf' = c1
           /\ now' = c1.t
           /\ page' = IF cf.attempt >= max_attempts THEN page
                      ELSE PageAfter(page, page.url, look)
           /\ pc' = CfPc(c1)
  /\ UNCHANGED <<files, last_saved, USERNAME, PASSWORD, BROWSE_ENABLED, exit_code,
                 session_data, cache_saved, aux_pages, events, login_ret, topics, hist>>

\* lines 218-225, as one step
CFFinal ==
  /\ pc = "cf_final"
  /\ \E look \in Looks :
       LET c1 == cf_final(cf, look)
       IN  /\ cf' = c1
           /\ now' = c1.t
           /\ page' = PageAfter(page, page.url, look)
           /\ pc' = CfPc(c1)
  /\ UNCHANGED <<files, last_saved, USERNAME, PASSWORD, BROWSE_ENABLED, exit_code,
                 session_data, cache_saved, aux_pages, events, login_ret, topics, hist>>

NextCF == CFEntry \/ CFPoll \/ CFFinal

SpecCF == InitCF /\ [][NextCF]_vars

\* C6: in every execution of handle_cloudflare, whatever the looks at the page
\* return or raise, at most max_attempts polling iterations are made, no
\* iteration is started once the time since entry exceeds timeout, and the
\* function returns (it does not end by raising).
C6_PollingBounded ==
  /\ cf.attempt <= max_attempts
  /\ ~cf.late
  /\ cf.at # "raised"

\* C16: handle_cloudflare returns True exactly when it ends BYPASSED or
\* PASSED, and False when it ends UNRESOLVED.
C16_ResultMatchesState ==
  cf.at = "returned" => (cf.result <=> cf.state \in {"BYPASSED", "PASSED"})

\* ======================== the run: login ========================

\* an uncaught exception ends the process: the interpreter exits with status 1
Crash == pc' = "exited" /\ exit_code' = 1

\* lines 43-53: a credential is taken from its LINUXDO_ variable and, when
\* that is unset or empty, from the plain one (TRUE: a non-empty value)
getenv_fallback(primary, fallback) == IF ~primary THEN fallback ELSE primary

\* (mutant of Main: the credentials are not checked)
Main_unchecked ==
  /\ pc = "start"
  /\ pc' = "login" /\ exit_code' = exit_code
  /\ session_data' = load_session(files)
  /\ events' = Append(events, Ev("launch", "init", now))
  /\ hist' = [hist EXCEPT !.session0 = load_session(files),
                          !.cookies0 = OrEmptyList(load_cookies(files))]
  /\ cache_saved' = FALSE
  /\ UNCHANGED <<cache_vars, USERNAME, PASSWORD, BROWSE_ENABLED, page, aux_pages, cf,
                 login_ret, topics>>

\* __main__ (lines 839-845) up to browser.run(): the credentials check with
\* its message and exit(1), and LinuxDoBrowser.__init__
Main ==
  /\ pc = "start"
  /\ IF ~USERNAME \/ ~PASSWORD
       THEN /\ pc' = "exited" /\ exit_code' = 1
            /\ events' = Append(events, Ev("print_message", "main", now))
            /\ UNCHANGED <<session_data, hist>>
       ELSE /\ pc' = "login" /\ exit_code' = exit_code
            /\ session_data' = load_session(files)
            /\ events' = Append(events, Ev("launch", "init", now))
            /\ hist' = [hist EXCEPT !.session0 = load_session(files),
                                    !.cookies0 = OrEmptyList(load_cookies(files))]
  /\ cache_saved' = FALSE
  /\ UNCHANGED <<cache_vars, USERNAME, PASSWORD, BROWSE_ENABLED, page, aux_pages, cf,
                 login_ret, topics>>

\* try_cache_first_approach(), called at line 549; the browser raises in
\* page.get(HOME_URL) or shows what the probe p finds
TryCacheFirst(Probes) ==
  /\ pc = "login"
  /\ \E raises \in BOOLEAN : \E p \in Probes :
       LET cached_cookies == OrEmptyList(load_cookies(files))
           cached_cf_valid == is_cf_cookie_valid(cached_cookies, now)
           calls == <<Ev("set_cookies", "cache", now), Ev("get_home", "cache", now)>>
       IN  IF ~cached_cf_valid
             THEN pc' = "login_nav" /\ UNCHANGED <<now, events, page, hist>>
             ELSE IF raises
               THEN /\ pc' = "login_nav"
                    /\ events' = events \o calls
                    /\ UNCHANGED <<now, page, hist>>
               ELSE /\ pc' = IF check_login_status(p) THEN "cache_ok" ELSE "login_nav"
                    /\ events' = events \o calls
                    /\ now' = now + 5 + check_login_sleep(p)
                    /\ page' = [url |-> HOME_URL, interstitial |-> p.interstitial]
                    /\ hist' = [hist EXCEPT !.probe = p, !.check = check_outcome(p)]
  /\ UNCHANGED <<files, last_saved, USERNAME, PASSWORD, BROWSE_ENABLED, exit_code,
                 session_data, cache_saved, aux_pages, cf, login_ret, topics>>

\* lines 556-558: page.get(LOGIN_URL), which can raise, and the sleep
LoginNav ==
  /\ pc = "login_nav"
  /\ \E raises \in BOOLEAN :
       IF raises
         THEN /\ Crash /\ login_ret' = "raised"
              /\ UNCHANGED <<now, page>>
         ELSE /\ pc' = "cf_entry" /\ now' = now + 2
              /\ page' = [url |-> LOGIN_URL, interstitial |-> FALSE]
              /\ UNCHANGED <<exit_code, login_ret>>
  /\ events' = Append(events, Ev("get_login", "login", now))
  /\ UNCHANGED <<files, last_saved, USERNAME, PASSWORD, BROWSE_ENABLED,
                 session_data, cache_saved, aux_pages, cf, topics, hist>>

\* line 561: CloudflareHandler.handle_cloudflare(self.page), run to its end
\* against one of the scripts
HandleCloudflare(Scripts) ==
  /\ pc = "cf_entry"
  /\ \E script \in Scripts :
       LET cached == load_cookies(files)
           c == handle_cloudflare(cached, now, script)
           calls == cf_entry_calls(cf_start(now), cached)
           p1 == IF calls = <<>> THEN page ELSE PageAfter(page, HOME_URL, script.entry)
       IN  /\ cf' = c
           /\ now' = c.t
           /\ events' = events \o calls
           /\ page' = [p1 EXCEPT !.interstitial = (c.state \in {"UNRESOLVED", "POLLING"})]
           /\ IF c.at = "raised"
                THEN Crash /\ login_ret' = "raised"
                ELSE pc' = "token" /\ UNCHANGED <<exit_code, login_ret>>
  /\ UNCHANGED <<files, last_saved, USERNAME, PASSWORD, BROWSE_ENABLED,
                 session_data, cache_saved, aux_pages, topics, hist>>

\* line 565: getTurnstileToken()
Token(Envs) ==
  /\ pc = "token"
  /\ \E env \in Envs :
       LET r == getTurnstileToken(env)
       IN  /\ IF r.raises
                THEN Crash /\ login_ret' = "raised"
                ELSE pc' = "submit" /\ UNCHANGED <<exit_code, login_ret>>
           /\ now' = now + r.slept
           /\ hist' = [hist EXCEPT !.queries = r.queries,
                                   !.token = [called |-> TRUE, env |-> env, ret |-> r]]
  /\ UNCHANGED <<files, last_saved, USERNAME, PASSWORD, BROWSE_ENABLED, session_data,
                 cache_saved, page, aux_pages, events, cf, topics>>

\* lines 568-573: the credential form (an element that is not there raises),
\* the sleep, and check_login_status()
Submit(Probes) ==
  /\ pc = "submit"
  /\ \E found \in BOOLEAN : \E p \in Probes :
       IF ~found
         THEN /\ Crash /\ login_ret' = "raised"
              /\ UNCHANGED <<now, events, page, hist>>
         ELSE /\ IF check_login_status_raises(p)
                   THEN Crash /\ login_ret' = "raised"
                   ELSE /\ pc' = IF check_login_status(p) THEN "login_ok" ELSE "login_failed"
                        /\ UNCHANGED <<exit_code, login_ret>>
              /\ events' = Append(events, Ev("submit", "login", now))
              /\ now' = now + 10 + check_login_sleep(p)
              /\ page' = [page EXCEPT !.interstitial = p.interstitial]
              /\ hist' = [hist EXCEPT !.probe = p, !.check = check_outcome(p)]
  /\ UNCHANGED <<files, last_saved, USERNAME, PASSWORD, BROWSE_ENABLED, session_data,
                 cache_saved, aux_pages, cf, topics>>

\* lines 550-554 and 574-578: login() saves the caches and returns True
LoginSave(Envs) ==
  /\ pc \in {"cache_ok", "login_ok"}
  /\ \E env \in Envs :
       LET r == save_if_unsaved(files, session_data, cache_saved, last_saved, now, env)
       IN  /\ files' = r.files
           /\ session_data' = r.session_data
           /\ cache_saved' = r.cache_saved
           /\ last_saved' = r.last_saved
           /\ hist' = IF cache_saved THEN hist
                      ELSE [hist EXCEPT !.saves = Append(@, [t |-> now, env |-> env])]
  /\ login_ret' = "True"
  /\ pc' = "logged_in"
  /\ UNCHANGED <<now, USERNAME, PASSWORD, BROWSE_ENABLED, exit_code, page, aux_pages,
                 events, cf, topics>>

\* (mutant of LoginFailed: run() goes on after login() returned False)
LoginFailed_goes_on ==
  /\ pc = "login_failed"
  /\ login_ret' = "False"
  /\ pc' = "logged_in"
  /\ UNCHANGED <<cache_vars, USERNAME, PASSWORD, BROWSE_ENABLED, exit_code, session_data,
                 cache_saved, page, aux_pages, events, cf, topics, hist>>

\* lines 579-581 and 793-797: login() returns False; run() clears the caches
\* and exits with status 1
LoginFailed ==
  /\ pc = "login_failed"
  /\ \E outcome \in ClearOutcomes :
       /\ files' = clear_caches_files(files, outcome)
       /\ last_saved' = NoteClear(last_saved, files, files')
       /\ session_data' = clear_caches_session(session_data, files, outcome)
       /\ hist' = [hist EXCEPT !.clear =
                     IF clear_caches_raises(files, outcome) THEN "raised" ELSE "ok"]
  /\ login_ret' = "False"
  /\ pc' = "exited" /\ exit_code' = 1
  /\ UNCHANGED <<now, USERNAME, PASSWORD, BROWSE_ENABLED, cache_saved, page, aux_pages,
                 events, cf, topics>>

\* ======================== the run: browsing and the report ========================

\* What line 584 (and line 589 after the refresh) can find: the query raises,
\* or gives the list first, and second after a refresh if first is empty.
Listing(raises, first, second) == [raises |-> raises, first |-> first, second |-> second]

\* lines 584-595 of click_topic: the topic list, the refresh when it is empty,
\* and the random selection
ClickTopicStart(Listings) ==
  /\ pc = "logged_in" /\ BROWSE_ENABLED
  /\ \E l \in Listings :
       IF l.raises
         THEN /\ Crash
              /\ UNCHANGED <<now, events, topics>>
         ELSE LET topic_list == IF l.first # <<>> THEN l.first ELSE l.second
                  topic_count == Len(topic_list)
              IN  \E n \in 4..8 : \E selected_topics \in Samples(topic_list, Min(n, topic_count)) :
                    /\ topics' = [selected |-> selected_topics, i |-> 1, tries |-> <<>>,
                                  done |-> <<>>]
                    /\ pc' = IF selected_topics = <<>> THEN "browse_done" ELSE "visit"
                    /\ now' = IF l.first = <<>> THEN now + 3 ELSE now
                    /\ events' = IF l.first = <<>>
                                   THEN Append(events, Ev("refresh", "click_topic", now))
                                   ELSE events
                    /\ UNCHANGED exit_code
  /\ UNCHANGED <<files, last_saved, USERNAME, PASSWORD, BROWSE_ENABLED, session_data,
                 cache_saved, page, aux_pages, cf, login_ret, hist>>

\* line 799 when BROWSE_ENABLED is false
SkipBrowse ==
  /\ pc = "logged_in" /\ ~BROWSE_ENABLED
  /\ pc' = "report"
  /\ UNCHANGED <<cache_vars, USERNAME, PASSWORD, BROWSE_ENABLED, exit_code, session_data,
                 cache_saved, page, aux_pages, events, cf, login_ret, topics, hist>>

\* An attempt of click_one_topic ends at clock t, by raising or by returning:
\* the wrapper's except branch (lines 26-32), and when the wrapper is left,
\* lines 600-609 of click_topic (the history update and the delay).
AttemptEnds(raised, t, delay) ==
  LET attempt == Len(topics.tries)
      log == Append(topics.tries, IF raised THEN "raised" ELSE "ok")
      step == retry_step(attempt, raised)
      t1 == IF raised THEN t + 1 ELSE t
      href == topics.selected[topics.i]
      browse_count == Len(topics.selected)
  IN  IF step = "retry"
        THEN /\ topics' = [topics EXCEPT !.tries = log]
             /\ now' = t1
             /\ pc' = "visit"
             /\ UNCHANGED <<session_data, hist>>
        ELSE /\ topics' = [topics EXCEPT !.tries = <<>>, !.i = @ + 1,
                                         !.done = Append(@, [log |-> log, result |-> step])]
             /\ session_data' = update_history(session_data, href)
             /\ hist' = [hist EXCEPT !.visited = Append(@, href)]
             /\ now' = IF topics.i < browse_count THEN t1 + delay ELSE t1
             /\ pc' = IF topics.i < browse_count THEN "visit" ELSE "browse_done"

\* line 613 of click_one_topic: self.browser.new_tab(), which raises or not as
\* Raises allows
VisitOpen(Waits, Raises) ==
  /\ pc = "visit"
  /\ \E raises \in Raises : \E delay \in Waits :
       IF raises
         THEN /\ AttemptEnds(TRUE, now, delay)
              /\ UNCHANGED <<aux_pages, events>>
         ELSE /\ aux_pages' = aux_pages + 1
              /\ events' = Append(events, Ev("new_tab_topic", "click_one_topic", now))
              /\ pc' = "visit_body"
              /\ UNCHANGED <<now, session_data, topics, hist>>
  /\ UNCHANGED <<files, last_saved, USERNAME, PASSWORD, BROWSE_ENABLED, exit_code,
                 cache_saved, page, cf, login_ret>>

\* lines 614-632 of click_one_topic: the visit, which can raise, and the
\* finally that closes the tab
VisitBody(Waits) ==
  /\ pc = "visit_body"
  /\ \E raises \in BOOLEAN : \E delay \in Waits :
       AttemptEnds(raises, IF raises THEN now ELSE now + 3, delay)
  /\ aux_pages' = aux_pages - 1
  /\ UNCHANGED <<files, last_saved, USERNAME, PASSWORD, BROWSE_ENABLED, exit_code,
                 cache_saved, page, events, cf, login_ret>>

\* lines 801-807 of run
BrowseDone(Envs) ==
  /\ pc = "browse_done"
  /\ \E env \in Envs :
       LET r == save_if_unsaved(files, count_browse(session_data, now), cache_saved,
                                last_saved, now, env)
       IN  /\ files' = r.files
           /\ session_data' = r.session_data
           /\ cache_saved' = r.cache_saved
           /\ last_saved' = r.last_saved
           /\ hist' = IF cache_saved THEN hist
                      ELSE [hist EXCEPT !.saves = Append(@, [t |-> now, env |-> env])]
  /\ pc' = "report"
  /\ UNCHANGED <<now, USERNAME, PASSWORD, BROWSE_ENABLED, exit_code, page, aux_pages,
                 events, cf, login_ret, topics>>

\* line 815 of print_connect_info: self.browser.new_tab(), which can raise
ReportOpen ==
  /\ pc = "report"
  /\ \E raises \in BOOLEAN :
       IF raises
         THEN Crash /\ UNCHANGED <<aux_pages, events>>
         ELSE /\ pc' = "report_get"
              /\ aux_pages' = aux_pages + 1
              /\ events' = Append(events, Ev("new_tab_report", "print_connect_info", now))
              /\ UNCHANGED exit_code
  /\ UNCHANGED <<cache_vars, USERNAME, PASSWORD, BROWSE_ENABLED, session_data,
                 cache_saved, page, cf, login_ret, topics, hist>>

\* lines 816-836 of print_connect_info: page.get, which can raise, the sleep,
\* the table (errors are logged), and page.close()
ReportGet ==
  /\ pc = "report_get"
  /\ \E raises \in BOOLEAN :
       IF raises
         THEN Crash /\ UNCHANGED <<now, aux_pages>>
         ELSE /\ pc' = "finish"
              /\ now' = now + 3
              /\ aux_pages' = aux_pages - 1
              /\ UNCHANGED exit_code
  /\ events' = Append(events, Ev("get_report", "print_connect_info", now))
  /\ UNCHANGED <<files, last_saved, USERNAME, PASSWORD, BROWSE_ENABLED, session_data,
                 cache_saved, page, cf, login_ret, topics, hist>>

\* lines 810-811 of run: the process ends with status 0
Finish ==
  /\ pc = "finish"
  /\ pc' = "exited" /\ exit_code' = 0
  /\ UNCHANGED <<cache_vars, USERNAME, PASSWORD, BROWSE_ENABLED, session_data,
                 cache_saved, page, aux_pages, events, cf, login_ret, topics, hist>>

\* ======================== the whole run ========================

\* The probes of the page a run meets: a user element with the name in the
\* html; a user element and a menu, the name in neither; a login button; no
\* element but a long page; page.html raises; a user element and the name in
\* the html of a page whose title is the interstitial's.
RunProbes ==
  { Probe(TRUE, "same_case", FALSE, FALSE, FALSE, FALSE, 1001, FALSE, FALSE, FALSE),
    Probe(TRUE, "same_case", FALSE, FALSE, FALSE, TRUE, 1001, FALSE, FALSE, FALSE),
    Probe(TRUE, "absent", TRUE, FALSE, FALSE, FALSE, 1001, FALSE, FALSE, FALSE),
    Probe(FALSE, "absent", FALSE, FALSE, TRUE, FALSE, 1001, FALSE, FALSE, FALSE),
    Probe(FALSE, "absent", FALSE, FALSE, FALSE, FALSE, 1001, FALSE, FALSE, FALSE),
    Probe(FALSE, "absent", FALSE, FALSE, FALSE, TRUE, 200, TRUE, FALSE, FALSE) }

\* a page that answers every look of handle_cloudflare alike, but the final
\* check with last
Script(look, last) ==
  [entry |-> look, polls |-> [i \in 1..max_attempts |-> look], final |-> last]

\* The pages a run's verifier meets: one that is through at once, one stuck on
\* the interstitial, one stuck whose final check raises, and a slow one that is
\* through at the final check.
RunScripts ==
  { Script(Look("normal", 0, 8), Look("normal", 0, 8)),
    Script(Look("interstitial", 0, 15), Look("interstitial", 0, 15)),
    Script(Look("interstitial", 0, 15), Look("raises", 0, 15)),
    Script(Look("interstitial", SlowCall, 15), Look("normal", 0, 15)) }

\* turnstile.reset() raises; the first query gives the token; none does, and
\* the widget cannot be triggered
RunTokens ==
  {TokenEnv(TRUE, 1, FALSE), TokenEnv(FALSE, 1, FALSE), TokenEnv(FALSE, polls + 1, TRUE)}

\* The cookies browser.cookies() returns to a run, and what a run's
\* save_all_caches meets.
RunBrowserCookies ==
  { <<>>,
    <<Cookie("cf_clearance", -1), Cookie("_t", -1)>>,
    <<Cookie("cf_clearance", InitClock + 3600)>> }
RunSaveOutcomes == {"ok", "dump_fails"}
RunSaveEnvs ==
  {CookiesRaise} \cup
  { SaveEnv(FALSE, c, co, so) : c \in RunBrowserCookies, co \in RunSaveOutcomes,
                                so \in RunSaveOutcomes }

\* The topic lists a run finds: the query raises, one topic, none even after
\* the refresh, one after the refresh.
RunListings ==
  { Listing(TRUE, <<>>, <<>>), Listing(FALSE, <<101>>, <<>>),
    Listing(FALSE, <<>>, <<>>), Listing(FALSE, <<>>, <<102>>) }

\* The cache files a run can find, as earlier runs leave them: none; those of
\* a login 100 s ago; an expired clearance cookie beside a session with
\* browsing statistics; a clearance cookie expiring right now and no session;
\* a clearance cookie expiring in 3 s.
Disk(cookies, session) ==
  [f \in CacheFiles |->
     IF f = COOKIES_FILE
       THEN (IF cookies = <<>> THEN NoFile ELSE SavedFile(cookies, InitClock - 100))
       ELSE (IF DOMAIN session = {} THEN NoFile ELSE SavedFile(session, InitClock - 100))]
RunDisks ==
  { Disk(<<>>, EmptyDict),
    Disk(<<Cookie("cf_clearance", -1), Cookie("_t", -1)>>, login_keys(InitClock - 100)),
    Disk(<<Cookie("cf_clearance", InitClock - 10)>>,
         Update(login_keys(InitClock - 100),
                [last_browse |-> InitClock - 100, total_browsed |-> 2,
                 browse_history |-> <<1, 2>>])),
    Disk(<<Cookie("cf_clearance", InitClock)>>, EmptyDict),
    Disk(<<Cookie("_t", -1), Cookie("cf_clearance", InitClock + 3)>>,
         login_keys(InitClock - 100)) }

Init ==
  /\ files \in RunDisks
  /\ now = InitClock
  /\ last_saved = [f \in CacheFiles |-> NoSave]
  /\ USERNAME \in {getenv_fallback(a, b) : a, b \in BOOLEAN}
  /\ PASSWORD \in {getenv_fallback(a, b) : a, b \in BOOLEAN}
  /\ BROWSE_ENABLED \in BOOLEAN
  /\ pc = "start" /\ exit_code = -1
  /\ session_data = EmptyDict /\ cache_saved = FALSE
  /\ page = [url |-> "about:blank", interstitial |-> FALSE]
  /\ aux_pages = 0 /\ events = <<>>
  /\ cf = cf_start(0)
  /\ login_ret = "pending"
  /\ topics = NoTopics
  /\ hist = NoHist

Next ==
  \/ Main
  \/ TryCacheFirst(RunProbes)
  \/ LoginNav
  \/ HandleCloudflare(RunScripts)
  \/ Token(RunTokens)
  \/ Submit(RunProbes)
  \/ LoginSave(RunSaveEnvs)
  \/ LoginFailed
  \/ ClickTopicStart(RunListings)
  \/ SkipBrowse
  \/ VisitOpen({8}, BOOLEAN)
  \/ VisitBody({8})
  \/ BrowseDone(RunSaveEnvs)
  \/ ReportOpen
  \/ ReportGet
  \/ Finish

Spec == Init /\ [][Next]_vars

\* ======================== the identity check on its own ========================

\* the ways the page text can hold the user name, and the html lengths probed
NameForms == {"absent", "same_case", "other_case"}
HtmlLens == {200, 1000, 1001}

\* every page check_login_status can meet
AllProbes ==
  { Probe(user, name, menu, name_menu, btn, inter, len, raises, ele_r, click_r) :
      user \in BOOLEAN, name \in NameForms, menu \in BOOLEAN, name_menu \in BOOLEAN,
      btn \in BOOLEAN, inter \in BOOLEAN, len \in HtmlLens, raises \in BOOLEAN,
      ele_r \in BOOLEAN, click_r \in BOOLEAN }

\* login() right before one of its two calls of check_login_status: entering
\* try_cache_first_approach with a valid cached clearance cookie, or on the
\* login page with the token step done
InitCheck ==
  /\ files = Disk(<<Cookie("cf_clearance", -1)>>, EmptyDict)
  /\ now = InitClock
  /\ last_saved = [f \in CacheFiles |-> NoSave]
  /\ USERNAME = TRUE /\ PASSWORD = TRUE /\ BROWSE_ENABLED = TRUE
  /\ exit_code = -1
  /\ session_data = EmptyDict /\ cache_saved = FALSE
  /\ aux_pages = 0
  /\ login_ret = "pending"
  /\ topics = NoTopics
  /\ hist = [NoHist EXCEPT !.cookies0 = <<Cookie("cf_clearance", -1)>>]
  /\ \/ /\ pc = "login"
        /\ page = [url |-> "about:blank", interstitial |-> FALSE]
        /\ events = <<Ev("launch", "init", InitClock)>>
        /\ cf = cf_start(0)
     \/ /\ pc = "submit"
        /\ page = [url |-> LOGIN_URL, interstitial |-> FALSE]
        /\ events = <<Ev("launch", "init", InitClock), Ev("get_login", "login", InitClock)>>
        /\ cf = handle_cloudflare(None, InitClock, Script(Look("normal", 0, 8), Look("normal", 0, 8)))

NextCheck ==
  \/ TryCacheFirst(AllProbes)
  \/ Submit(AllProbes)

SpecCheck == InitCheck /\ [][NextCheck]_vars

\* the last page probed
probed == hist.probe

\* C22: check_login_status never raises to its caller, whatever raises while
\* it probes the page, and returns True only on a signal it could read: a
\* user element with the user name confirmed, or the heuristic on a page with
\* no login button found; when reading the page raises it returns False.
C22_CheckAbsorbs ==
  hist.check # "none" =>
    /\ hist.check \in {"True", "False"}
    /\ ~check_login_status_raises(probed)
    /\ pc \in {"cache_ok", "login_nav", "login_ok", "login_failed"}
    /\ probed.html_raises => hist.check = "False"
    /\ (probed.click_raises /\ probed.user_elem /\ probed.name_in_html = "absent"
          /\ ~probed.ele_raises /\ ~probed.html_raises) => hist.check = "False"
    /\ hist.check = "True" =>
         \/ /\ probed.user_elem /\ ~probed.ele_raises
            /\ \/ probed.name_in_html # "absent"
               \/ probed.menu_elem /\ probed.name_in_menu /\ ~probed.click_raises
         \/ /\ ~(probed.login_btn /\ ~probed.ele_raises)
            /\ ~probed.interstitial
            /\ probed.name_in_html # "absent" \/ probed.html_len > 1000

\* C22's case: a user element is found, reading the page text raises, the
\* check returned False and login() went on to its failure branch.
C22_Witness ==
  /\ hist.check = "False"
  /\ probed.user_elem /\ ~probed.ele_raises /\ probed.html_raises
  /\ ~probed.login_btn
  /\ pc = "login_failed"

\* C23: on a page read without error where no user element is found, the
\* check returns False when a login button is found, whatever the text and
\* its length; without a login button it returns True exactly when the title
\* is not the interstitial's and the text holds the user name in any case or
\* is longer than 1000 characters; on the interstitial it returns False.
C23_FallbackDecision ==
  (hist.check # "none" /\ ~probed.user_elem /\ ~probed.html_raises /\ ~probed.ele_raises) =>
    /\ probed.login_btn => hist.check = "False"
    /\ ~probed.login_btn =>
         (hist.check = "True" <=>
            /\ ~probed.interstitial
            /\ \/ probed.name_in_html \in {"same_case", "other_case"}
               \/ probed.html_len > 1000)
    /\ probed.interstitial => hist.check = "False"

\* C23's case: no user element, no login button, a short page that is not the
\* interstitial and holds the user name in another case: the check returned
\* True after the credentials were submitted.
C23_Witness ==
  /\ hist.check = "True"
  /\ ~probed.user_elem /\ ~probed.login_btn /\ ~probed.interstitial
  /\ ~probed.html_raises /\ ~probed.ele_raises
  /\ probed.name_in_html = "other_case" /\ probed.html_len = 200
  /\ pc = "login_ok"

\* ======================== the token step on its own ========================

\* everything getTurnstileToken can meet
AllTokenEnvs ==
  { TokenEnv(reset_r, first, trigger_r) :
      reset_r \in BOOLEAN, first \in 1..(polls + 1), trigger_r \in BOOLEAN }

\* login() on the login page, the verifier through, before line 565
InitToken ==
  /\ files = Disk(<<>>, EmptyDict)
  /\ now = InitClock
  /\ last_saved = [f \in CacheFiles |-> NoSave]
  /\ USERNAME = TRUE /\ PASSWORD = TRUE /\ BROWSE_ENABLED = TRUE
  /\ pc = "token" /\ exit_code = -1
  /\ session_data = EmptyDict /\ cache_saved = FALSE
  /\ page = [url |-> LOGIN_URL, interstitial |-> FALSE]
  /\ aux_pages = 0
  /\ events = <<Ev("launch", "init", InitClock), Ev("get_login", "login", InitClock)>>
  /\ cf = handle_cloudflare(None, InitClock, Script(Look("normal", 0, 8), Look("normal", 0, 8)))
  /\ login_ret = "pending"
  /\ topics = NoTopics
  /\ hist = NoHist

NextToken ==
  \/ Token(AllTokenEnvs)
  \/ Submit(AllProbes)

SpecToken == InitToken /\ [][NextToken]_vars

\* C26: getTurnstileToken makes at most 5 queries; it returns a token exactly
\* when one of the 5 queries gives one, and then after the first that does; it
\* does not raise when looking up or clicking the widget raises; when no query
\* gives a token it returns None after the 5th, having slept after each; and
\* when it has returned, with or without a token, login() is at the
\* credential form or past it.
C26_TokenBounded ==
  hist.token.called =>
    LET env == hist.token.env
        r == hist.token.ret
    IN  /\ r.queries <= polls
        /\ r.raises <=> env.reset_raises
        /\ ~r.raises =>
             /\ r.token <=> env.first <= polls
             /\ r.token => r.queries = env.first /\ r.slept = env.first - 1
             /\ ~r.token => r.queries = polls /\ r.slept = polls
             /\ \/ pc = "submit"
                \/ Called({"submit"}) # {}
                \/ pc = "exited" /\ login_ret = "raised"

\* C26's case: no query gave a token and every attempt to trigger the widget
\* raised; the credentials were submitted all the same and login succeeded.
C26_Witness ==
  /\ hist.token.called
  /\ hist.token.env = TokenEnv(FALSE, polls + 1, TRUE)
  /\ ~hist.token.ret.token /\ hist.token.ret.queries = polls
  /\ Called({"submit"}) # {}
  /\ pc = "login_ok"

\* ======================== browsing on its own ========================

\* the list 1, 2, ..., n of topic hrefs (a topic's href is modelled by its number)
OldTopics(n) == [i \in 1..n |-> i]

\* The session dicts a browsing run starts from: an empty one, and ones whose
\* browse_history holds 49 and 50 entries.
BrowseSessions ==
  { EmptyDict } \cup
  { Update(login_keys(InitClock - 100),
           [last_browse |-> InitClock - 100, total_browsed |-> 7,
            browse_history |-> OldTopics(n)]) : n \in (HistoryCap - 1)..HistoryCap }

\* The topic lists a browsing run finds: the query raises, none, three topics.
BrowseListings ==
  { Listing(TRUE, <<>>, <<>>), Listing(FALSE, <<>>, <<>>),
    Listing(FALSE, <<101, 102, 103>>, <<>>) }

\* What save_all_caches meets in a browsing run.
BrowseCookies == <<Cookie("cf_clearance", -1), Cookie("_t", -1)>>
BrowseSaveEnvs ==
  { CookiesRaise, SaveEnv(FALSE, BrowseCookies, "ok", "ok"),
    SaveEnv(FALSE, BrowseCookies, "ok", "dump_fails") }

\* login() has just returned True by the cached path (lines 549-554), having
\* saved the caches or not (browser.cookies() raised)
InitBrowse ==
  \E session0 \in BrowseSessions : \E saved \in BOOLEAN :
    LET env == IF saved THEN SaveEnv(FALSE, BrowseCookies, "ok", "ok") ELSE CookiesRaise
        disk0 == Disk(BrowseCookies, session0)
        r == save_all_caches(disk0, session0, FALSE, [f \in CacheFiles |-> NoSave],
                             InitClock, env)
    IN  /\ files = r.files
        /\ now = InitClock
        /\ last_saved = r.last_saved
        /\ USERNAME = TRUE /\ PASSWORD = TRUE /\ BROWSE_ENABLED = TRUE
        /\ pc = "logged_in" /\ exit_code = -1
        /\ session_data = r.session_data
        /\ cache_saved = r.cache_saved
        /\ page = [url |-> HOME_URL, interstitial |-> FALSE]
        /\ aux_pages = 0
        /\ events = <<Ev("launch", "init", InitClock), Ev("set_cookies", "cache", InitClock),
                      Ev("get_home", "cache", InitClock)>>
        /\ cf = cf_start(0)
        /\ login_ret = "True"
        /\ topics = NoTopics
        /\ hist = [NoHist EXCEPT !.session0 = session0, !.cookies0 = BrowseCookies,
                                 !.saves = <<[t |-> InitClock, env |-> env]>>]

NextBrowse ==
  \/ ClickTopicStart(BrowseListings)
  \/ VisitOpen(WaitChoices, {FALSE})
  \/ VisitBody(WaitChoices)
  \/ BrowseDone(BrowseSaveEnvs)
  \/ ReportOpen
  \/ ReportGet
  \/ Finish

SpecBrowse == InitBrowse /\ [][NextBrowse]_vars

\* the process is past click_topic's loop
BrowsingOver == pc \in {"browse_done", "report", "report_get", "finish", "exited"}

\* C9: after a history update the in-memory browse_history holds the history
\* loaded at start followed by the topics visited, in visit order, cut down to
\* its 50 most recent entries (the oldest are evicted first), and neither it
\* nor the persisted browse_history holds more than 50 entries.
C9_HistoryCapped ==
  hist.visited # <<>> =>
    LET all == Get(hist.session0, "browse_history", <<>>) \o hist.visited
        keep == IF Len(all) < 50 THEN Len(all) ELSE 50
        mem == Get(session_data, "browse_history", <<>>)
        stored == Get(load_session(files), "browse_history", <<>>)
    IN  /\ Len(mem) <= 50
        /\ mem = [i \in 1..keep |-> all[Len(all) - keep + i]]
        /\ Len(stored) <= 50

\* C9's case: 50 entries were loaded, three topics were visited, the three
\* oldest entries are gone, and the capped history has been persisted.
C9_Witness ==
  /\ Len(Get(hist.session0, "browse_history", <<>>)) = 50
  /\ Len(hist.visited) = 3
  /\ pc = "report"
  /\ Len(session_data.browse_history) = 50
  /\ session_data.browse_history[1] = 4
  /\ session_data.browse_history[50] = hist.visited[3]
  /\ Get(load_session(files), "browse_history", <<>>) = session_data.browse_history

\* C10: a topic visit is attempted at most 3 times; no attempt follows one that
\* completed without an exception; a visit whose attempts 1 and 2 raised and
\* whose attempt 3 completed is returned to the browsing loop as the visit's
\* result, not as a final failure; and the loop goes on to every selected
\* topic, so that when browsing is over each of them has been visited.
C10_RetrySuccess ==
  /\ \A j \in 1..Len(topics.done) :
       LET d == topics.done[j]
       IN  /\ Len(d.log) >= 1 /\ Len(d.log) <= 3
           /\ \A k \in 1..(Len(d.log) - 1) : d.log[k] = "raised"
           /\ d.log = <<"raised", "raised", "ok">> => d.result = "returned"
  /\ Len(topics.tries) < 3
  /\ \A k \in 1..Len(topics.tries) : topics.tries[k] = "raised"
  /\ BrowsingOver =>
       /\ Len(topics.done) = Len(topics.selected)
       /\ hist.visited = topics.selected

\* C10's case: the first of three selected topics raised twice and completed
\* on the third attempt, and the other two were visited after it.
C10_Witness ==
  /\ pc = "browse_done"
  /\ Len(topics.selected) = 3
  /\ Len(topics.done) = 3
  /\ topics.done[1].log = <<"raised", "raised", "ok">>
  /\ topics.done[1].result = "returned"
  /\ topics.done[2].log = <<"ok">>

\* C11: a topic whose visit raises on every attempt is attempted exactly 3
\* times and then handed back to the browsing loop as a failed visit; the
\* process does not end inside the browsing loop, every selected topic is
\* visited (and entered in the history) whatever its outcome, and the run goes
\* on to the report.
C11_ExhaustedContinues ==
  /\ \A j \in 1..Len(topics.done) :
       LET d == topics.done[j]
       IN  /\ d.result = "failed" <=> (\A k \in 1..Len(d.log) : d.log[k] = "raised")
           /\ d.result = "failed" => Len(d.log) = 3
  /\ pc \in {"visit", "visit_body"} =>
       /\ exit_code = -1
       /\ Len(topics.done) = topics.i - 1
       /\ hist.visited = SubSeq(topics.selected, 1, topics.i - 1)
  /\ (BrowsingOver /\ topics.selected # <<>>) =>
       /\ Len(topics.done) = Len(topics.selected)
       /\ hist.visited = topics.selected

\* C11's case: the first of three selected topics raised on all 3 attempts,
\* the other two were visited after it, and the run completed with status 0
\* after collecting the report.
C11_Witness ==
  /\ pc = "exited" /\ exit_code = 0
  /\ Len(topics.done) = 3
  /\ topics.done[1].log = <<"raised", "raised", "raised">>
  /\ topics.done[1].result = "failed"
  /\ topics.done[2].result = "returned" /\ topics.done[3].result = "returned"
  /\ Called({"get_report"}) # {}

\* ======================== claims on the whole run ========================

\* neither cache file is on the disk
BothRemoved == \A f \in CacheFiles : ~files[f].exists

\* no topic was visited and the report was not collected
NoTopicNoReport ==
  /\ Called({"new_tab_topic", "new_tab_report", "get_report"}) = {}
  /\ hist.visited = <<>>

\* login() returned False after the full flow and the process has ended
LoginFailedExit == pc = "exited" /\ login_ret = "False"

C3_FatalInvalidates ==
  (pc = "exited" /\ exit_code = 1) => BothRemoved

\* every save_cache call the run made returned True
WritesOk == \A i \in 1..Len(hist.saves) :
              hist.saves[i].env.c_out = "ok" /\ hist.saves[i].env.s_out = "ok"

\* C4: after a run with browsing enabled that completes normally, storage
\* writes succeeding, the stored session record has total_browsed equal to the
\* value loaded at start plus one and a browse_history that ends with the
\* topics visited in this run.
C4_StatsDurable ==
  (pc = "exited" /\ exit_code = 0 /\ BROWSE_ENABLED /\ WritesOk) =>
    LET stored == load_session(files)
        h == Get(stored, "browse_history", <<>>)
        n == Len(hist.visited)
    IN  /\ Get(stored, "total_browsed", 0) = Get(hist.session0, "total_browsed", 0) + 1
        /\ Len(h) >= n
        /\ SubSeq(h, Len(h) - n + 1, Len(h)) = hist.visited

\* the stored session record says the login at the present clock succeeded, and
\* the stored cookie record holds the cookies the browser reported, if any
LoginPersisted ==
  LET stored == load_session(files)
      env == hist.saves[Len(hist.saves)].env
  IN  /\ Get(stored, "login_status", "") = "success"
      /\ Get(stored, "last_success", -1) = now
      /\ Get(hist.session0, "last_success", -1) < now
      /\ env.cookies # <<>> => load_cookies(files) = Some(env.cookies)

ClearanceValidAt(cookies, t) ==
  \E i \in 1..Len(cookies) :
    /\ "name" \in DOMAIN cookies[i] /\ cookies[i].name = "cf_clearance"
    /\ "expires" \in DOMAIN cookies[i]
    /\ (cookies[i].expires = -1 \/ cookies[i].expires > t)

\* the calls of the given name handle_cloudflare has made
VerifierCalls(call) ==
  {i \in 1..Len(events) : events[i].by = "verifier" /\ events[i].call = call}

\* the cookie file holds a clearance cookie valid when handle_cloudflare starts
CachedValid == ClearanceValidAt(OrEmptyList(load_cookies(files)), cf.start_time)

C8_NoShortCircuit ==
  /\ \A i \in Called({"set_cookies", "get_home"}) :
       ClearanceValidAt(hist.cookies0, events[i].t)
  /\ pc = "cache_ok" => Called({"set_cookies"}) # {}
  /\ (login_ret = "True" /\ ~ClearanceValidAt(hist.cookies0, InitClock)) =>
       Called({"get_login"}) # {}
  /\ (cf.at # "entry" /\ ~ClearanceValidAt(hist.cookies0, cf.start_time)) =>
       /\ cf.state # "BYPASSED"
       /\ cf.attempt >= 1

\* C8's case: the cached clearance cookie expired 10 s before the run; the
\* verifier passed by polling, login succeeded, and the cached cookies were
\* never installed.
C8_Witness ==
  /\ hist.cookies0 = <<Cookie("cf_clearance", InitClock - 10)>>
  /\ cf.state = "PASSED" /\ cf.attempt >= 1
  /\ login_ret = "True"
  /\ Called({"set_cookies", "get_home"}) = {}

\* C12: at every point of a run at most one auxiliary page is open, and none
\* is open between attempts, between topics, when the report step is entered,
\* or once the report step has been left (normally or by an exception).
C12_AuxPagesScoped ==
  /\ aux_pages <= 1
  /\ pc \in {"visit", "browse_done", "report", "finish", "exited"} => aux_pages = 0

\* C15: when handle_cloudflare ends with the challenge unresolved, login()
\* goes on to getTurnstileToken, then to the credential form, then to
\* check_login_status; the step that ends the verifier unresolved neither
\* ends login() nor sets an exit status, and after it the run ends before the
\* identity check only when the token step or the form raises.
C15_UnresolvedSoftFail ==
  [][ /\ (pc = "cf_entry" /\ cf'.state = "UNRESOLVED") =>
           (pc' = "token" /\ exit_code' = -1 /\ login_ret' = "pending"
              /\ cf'.at = "returned" /\ cf'.result)
      /\ (pc = "token" /\ cf.state = "UNRESOLVED" /\ pc' # "submit") =>
           (pc' = "exited" /\ login_ret' = "raised")
      /\ (pc = "submit" /\ cf.state = "UNRESOLVED"
            /\ pc' \notin {"login_ok", "login_failed"}) =>
           (pc' = "exited" /\ login_ret' = "raised") ]_vars

\* C15's case: the verifier used all its attempts and returned unresolved, the
\* form was submitted, login() returned True and the run ended with status 0.
C15_Witness ==
  /\ cf.state = "UNRESOLVED" /\ cf.attempt = max_attempts
  /\ Called({"submit"}) # {}
  /\ login_ret = "True"
  /\ pc = "exited" /\ exit_code = 0

\* the steps of run() after login(): browsing, the report, the end
AfterLogin ==
  pc \in {"logged_in", "visit", "visit_body", "browse_done", "report", "report_get",
          "finish"}

\* C17: a topic page or the report page is opened, the topic list is
\* refreshed, a topic is selected or recorded as visited, and run() is past
\* login(), only when login() has returned True in this run; when login()
\* returned False or raised, no topic was visited, no report page was opened
\* and the process has exited with status 1.
C17_PipelineOrder ==
  /\ ( \/ Called({"refresh", "new_tab_topic", "new_tab_report", "get_report"}) # {}
       \/ hist.visited # <<>>
       \/ topics.selected # <<>>
       \/ aux_pages > 0
       \/ AfterLogin
       \/ exit_code = 0 ) => login_ret = "True"
  /\ login_ret \in {"False", "raised"} =>
       /\ NoTopicNoReport
       /\ aux_pages = 0
       /\ pc = "exited" /\ exit_code = 1

\* C17's case: login() returned True, then a topic was visited and the report
\* page was read.
C17_Witness ==
  /\ login_ret = "True"
  /\ hist.visited # <<>>
  /\ Called({"new_tab_topic"}) # {}
  /\ Called({"get_report"}) # {}
  /\ Called({"submit"}) # {}
  /\ \A i \in Called({"new_tab_topic", "get_report"}) :
       \A j \in Called({"submit"}) : j < i

\* C18: when USERNAME or PASSWORD is missing after the fallback, the process
\* prints its message and exits with status 1, and nothing else happens: no
\* browser is launched, no page is loaded, login() is not called, no topic is
\* visited, no report page is opened and no cache file is touched.
C18_MissingCredentials ==
  /\ (~USERNAME \/ ~PASSWORD) =>
       /\ pc \in {"start", "exited"}
       /\ pc = "start" => events = <<>> /\ exit_code = -1
       /\ pc = "exited" =>
            /\ exit_code = 1
            /\ Len(events) = 1 /\ events[1].call = "print_message"
       /\ login_ret = "pending"
       /\ aux_pages = 0 /\ hist = NoHist /\ topics = NoTopics
       /\ cf = cf_start(0)
       /\ \A f \in CacheFiles : last_saved[f] = NoSave
  /\ (USERNAME /\ PASSWORD) => Called({"print_message"}) = {}

\* C18's case: the password is missing; the message was printed and the
\* process has exited with status 1.
C18_Witness ==
  /\ USERNAME /\ ~PASSWORD
  /\ pc = "exited" /\ exit_code = 1
  /\ events = <<Ev("print_message", "main", InitClock)>>

\* C20: try_cache_first_approach returns True only when the cached clearance
\* cookie is valid, the page loaded with the cached cookies is not the
\* interstitial, and before that return the login page was not loaded, the
\* verifier was not run and no credentials were submitted.
C20_CachedSuccessGuarded ==
  pc = "cache_ok" =>
    /\ \A i \in Called({"get_home"}) : ClearanceValidAt(hist.cookies0, events[i].t)
    /\ Called({"get_home"}) # {}
    /\ ~page.interstitial
    /\ Called({"get_login", "submit"}) = {}
    /\ cf = cf_start(0)

\* C21: from the navigation to the login page until the credentials are
\* submitted, the primary tab stays on the login page: the verifier, the token
\* step and the form find it at LOGIN_URL, and no other page is loaded between
\* the load of the login page and the submission.
C21_SubmitOnLoginPage ==
  /\ pc \in {"cf_entry", "token", "submit"} => page.url = LOGIN_URL
  /\ \A i \in Called({"submit"}) :
       \E j \in Called({"get_login"}) :
         /\ j < i
         /\ \A k \in (j + 1)..(i - 1) : events[k].call # "get_home"

\* C25: once clear_caches has been called, at most the one record whose
\* removal failed is left in storage, the in-memory session data is empty,
\* and when no removal failed both records load as absent.
C25_ClearBestEffort ==
  hist.clear # "none" =>
    /\ Cardinality({f \in CacheFiles : files[f].exists}) <= 1
    /\ session_data = EmptyDict
    /\ hist.clear = "ok" => \A f \in CacheFiles : load_cache(files, f).none

\* ======================== claims on the cache store ========================

\* C13: no cache store call raises to its caller; load_cache returns None
\* exactly when the file does not exist, is not valid JSON, or is not a JSON
\* object; save_cache returns False exactly when one of its I/O steps fails;
\* with no file on the disk load_cookies returns None and load_session an
\* empty dict.
C13_NoPropagation ==
  /\ pc # "raised"
  /\ \A f \in CacheFiles :
       /\ ~load_cache_raises(files, f)
       /\ load_cache(files, f).none <=>
            (~files[f].exists \/ ~files[f].json \/ ~files[f].dict)
  /\ \A outcome \in SaveOutcomes :
       /\ ~save_cache_raises(outcome)
       /\ save_cache_result(outcome) <=> outcome = "ok"
  /\ ~files[COOKIES_FILE].exists => load_cookies(files).none
  /\ ~files[SESSION_FILE].exists => load_session(files) = EmptyDict
  /\ hist.loaded = "absent" => session_data = EmptyDict

\* C13's case: the session file holds a JSON list, the cookie file holds text
\* that is not JSON, load_session was called and returned an empty dict, and
\* load_cookies returns None.
C13_Witness ==
  /\ files[SESSION_FILE].exists /\ files[SESSION_FILE].json /\ ~files[SESSION_FILE].dict
  /\ files[COOKIES_FILE].exists /\ ~files[COOKIES_FILE].json
  /\ hist.loaded = "absent"
  /\ session_data = EmptyDict
  /\ load_cookies(files).none
  /\ pc = "api"

\* C14: after a save attempt on a file, load_cache on it yields the new
\* payload if save_cache returned True and the payload stored before the
\* attempt if it returned False.
C14_SaveAtomic ==
  [][ \A f \in CacheFiles :
        (files'[f] # files[f] /\ files'[f].exists) =>
          IF ~last_saved'[f].none
            THEN load_cache(files', f) = Some(last_saved'[f].val)
            ELSE load_cache(files', f) = load_cache(files, f) ]_vars

\* C19: get_file_age_hours is None for a file that does not exist; for a file
\* whose latest save_cache call returned True, at clock T, it is the time
\* passed since T (so 0 right after the call, and never decreasing until the
\* next call).
C19_AgeSinceSave ==
  \A f \in CacheFiles :
    /\ ~files[f].exists => get_file_age(files, f, now).none
    /\ ~last_saved[f].none =>
         LET age == get_file_age(files, f, now)
         IN  /\ ~age.none
             /\ age.val = now - files[f].doc.file_created
             /\ age.val >= 0

\* C19's case: a file saved twice, the second time one second ago.
C19_Witness ==
  /\ last_saved[COOKIES_FILE].n = 2
  /\ files[COOKIES_FILE].doc.file_created = InitClock
  /\ now = InitClock + 1
  /\ get_file_age(files, COOKIES_FILE, now) = Some(1)
  /\ get_file_age(files, SESSION_FILE, now).none


\* C1: after save_cache calls that returned True, load_cache(key) is exactly the
\* payload of the latest one on that key: no earlier payload of the key is mixed
\* in, saves of the other key do not change it, and the wrapper's metadata
\* (cache_timestamp, cache_version, file_created) is not in the loaded value.
C1_RoundTrip ==
  \A f \in CacheFiles :
    ~last_saved[f].none => load_cache(files, f) = Some(last_saved[f].val)

\* Both keys were overwritten by a second successful save.
C1_Witness ==
  /\ last_saved[COOKIES_FILE].n = 2 /\ last_saved[SESSION_FILE].n = 2
  /\ last_saved[COOKIES_FILE].val # <<>>

\* C7: is_cf_cookie_valid holds exactly when the set has an entry named
\* cf_clearance that carries an expires of -1 or one strictly after the current
\* time; a missing expires, no such entry, or an empty or absent set is invalid.
C7_ValidIff ==
  LET cookies == OrEmptyList(load_cookies(files))
  IN  is_cf_cookie_valid(cookies, now)
        <=> \E i \in 1..Len(cookies) :
              /\ cookies[i].name = "cf_clearance"
              /\ "expires" \in DOMAIN cookies[i]
              /\ (cookies[i].expires = -1 \/ now < cookies[i].expires)

\* The stored clearance cookie expires at exactly the current time: invalid.
C7_Witness ==
  LET cookies == OrEmptyList(load_cookies(files))
  IN  /\ Len(cookies) = 1
      /\ cookies[1].name = "cf_clearance"
      /\ "expires" \in DOMAIN cookies[1]
      /\ cookies[1].expires = now
      /\ ~is_cf_cookie_valid(cookies, now)

====
